---- MODULE Spec2Model ----
(***************************************************************************)
(* SheetWizard (src/src/main.rs): a directory watcher that selects the     *)
(* spreadsheet with the largest tiangan suffix, follows the create /       *)
(* modify / remove lifecycle of its hidden lock file and runs a script     *)
(* when the lock file is removed after a modification.                     *)
(*                                                                         *)
(* Strings are sequences of characters (one-character tokens; a tiangan    *)
(* symbol is one character).  A path is [dir, name]: the parent directory  *)
(* and the final segment; name = <<>> is a path without a file name.       *)
(* Option values are sequences of length 0 (None) or 1 (Some).             *)
(***************************************************************************)
EXTENDS Integers, Sequences, FiniteSets, TLC

VARIABLES
    variant,    \* "debug" or "release" build (cfg(debug_assertions))
    cfg,        \* the settings of path.toml, as load_config would return them
    readable,   \* whether read_dir of the listened directory succeeds
    dir,        \* the names of the entries of the listened directory
    pc,         \* position of run_service / run_watcher
    watching,   \* the notifier delivers filesystem events (watch registered)
    queue,      \* the mpsc channel: NotifyResult<Event> items in flight
    produced,   \* number of items sent on the channel so far
    consumed,   \* number of items taken from the channel so far
    is_expected_hidden_file_opened,
    is_expected_file_modified,
    cur_expected_hidden_filename,
    success,    \* result of the run_script call in progress / last made
    inflight,   \* number of fired actions (script + notification) in progress
    status,     \* service status reported to the host
    call,       \* the last direct call of the selector or of the match, with its result
    last,       \* history: the last item handled and what handling it did
    fired,      \* history: number of run_script calls made
    shown,      \* history: number of notifications shown (success, failure)
    creates,    \* history: number of matching Create events handled
    session,    \* history: "none", or what was handled since the last matching Create
    cycles,     \* history: position in a run of complete [Create, Modify, Remove] sequences
    config_ok,  \* whether path.toml can be read and parsed
    action,     \* history: the run_script and show_notification calls made
    restart,    \* history: position in a [Create(F), Modify, Create(F), Remove(F)] sequence
    modified_by, \* history: the visible file whose Modify set is_expected_file_modified
    reported,   \* history: the states passed to set_service_status so far
    matched     \* history: position in a [Create matching F, Modify, Remove(F)] sequence

vars == <<variant, cfg, readable, dir, pc, watching, queue, produced, consumed,
          is_expected_hidden_file_opened, is_expected_file_modified,
          cur_expected_hidden_filename, success, inflight, status, call,
          last, fired, shown, creates, session, cycles,
          config_ok, action, restart, modified_by, reported, matched>>

(***************************************************************************)
(* Bounds of the model.                                                    *)
(***************************************************************************)
MaxEvents == 4
MaxCycleEvents == 6
MaxQueue == 2
MaxDirEntries == 3
MaxStopEvents == 3

None == <<>>
Some(x) == <<x>>

(***************************************************************************)
(* String and path primitives of the Rust standard library.                *)
(***************************************************************************)
starts_with(s, p) == Len(p) <= Len(s) /\ SubSeq(s, 1, Len(p)) = p

strip_prefix(s, p) ==
    IF starts_with(s, p) THEN Some(SubSeq(s, Len(p) + 1, Len(s))) ELSE None

\* str::replace: every non-overlapping match, left to right; an empty pattern
\* matches at every character boundary.
RECURSIVE replace_from(_, _, _)
replace_from(s, from, to) ==
    IF s = <<>> THEN <<>>
    ELSE IF starts_with(s, from)
         THEN to \o replace_from(SubSeq(s, Len(from) + 1, Len(s)), from, to)
         ELSE <<Head(s)>> \o replace_from(Tail(s), from, to)

RECURSIVE interleave(_, _)
interleave(s, to) ==
    IF s = <<>> THEN to ELSE to \o <<Head(s)>> \o interleave(Tail(s), to)

replace(s, from, to) ==
    IF from = <<>> THEN interleave(s, to) ELSE replace_from(s, from, to)

\* index of the last '.' of a file name, 0 when there is none
last_dot(name) ==
    IF \E i \in 1..Len(name) : name[i] = "."
    THEN CHOOSE i \in 1..Len(name) :
            name[i] = "." /\ \A j \in (i + 1)..Len(name) : name[j] # "."
    ELSE 0

\* Path::extension and Path::file_stem of a path whose final segment is name
extension(name) ==
    IF name = <<>> \/ last_dot(name) <= 1 THEN None
    ELSE Some(SubSeq(name, last_dot(name) + 1, Len(name)))

file_stem(name) ==
    IF name = <<>> THEN None
    ELSE IF last_dot(name) <= 1 THEN Some(name)
    ELSE Some(SubSeq(name, 1, last_dot(name) - 1))

file_name(path) == IF path.name = <<>> THEN None ELSE Some(path.name)

\* a directory of the model read as a path: its parent and its final segment
\* (Path("W/") has the components of Path("W"), so its file_name is "W")
as_path(folder) ==
    CASE folder = "W" -> [dir |-> "", name |-> <<"W">>]
      [] folder = "W/sub" -> [dir |-> "W", name |-> <<"sub">>]
      [] OTHER -> [dir |-> folder, name |-> <<>>]

\* Path::with_file_name: the file name is popped and the new one pushed;
\* pushing "" leaves the parent directory with a trailing separator
with_file_name(path, name) ==
    IF name = <<>> /\ path.name # <<>> THEN as_path(path.dir)
    ELSE [dir |-> path.dir, name |-> name]

join(folder, name) == [dir |-> folder, name |-> name]

(***************************************************************************)
(* The tiangan order and the version selector.                             *)
(***************************************************************************)
Tiangan == <<"jia", "yi", "bing", "ding", "wu", "ji", "geng", "xin", "ren", "gui">>

\* the HashMap from a symbol (a one-character string) to its index
generate_tiangan_map ==
    [k \in {<<Tiangan[i]>> : i \in 1..Len(Tiangan)} |->
        (CHOOSE i \in 1..Len(Tiangan) : Tiangan[i] = k[1]) - 1]

map_get(m, k) == IF k \in DOMAIN m THEN Some(m[k]) ELSE None

get_tiangan_from_filename(filename, filename_prefix, tiangan_order) ==
    IF strip_prefix(filename, filename_prefix) # None
    THEN map_get(tiangan_order, strip_prefix(filename, filename_prefix)[1])
    ELSE None

\* a selector that takes the last candidate listed instead of the largest
max_by_key_last(items) == IF items = <<>> THEN None ELSE Some(items[Len(items)])

\* Iterator::max_by_key over a sequence of <<version, path>>: the last of the
\* elements with the maximum key, None for an empty sequence
RECURSIVE max_by_key_from(_, _)
max_by_key_from(best, items) ==
    IF items = <<>> THEN best
    ELSE max_by_key_from(
            IF best = None \/ Head(items)[1] >= best[1][1] THEN Some(Head(items)) ELSE best,
            Tail(items))

max_by_key(items) == max_by_key_from(None, items)

\* the .filter(extension) and .filter_map(version) stages, in listing order
RECURSIVE candidates(_, _, _, _, _)
candidates(listing, folder_path, filename_prefix, ext_name, tiangan_order) ==
    IF listing = <<>> THEN <<>>
    ELSE LET entry == Head(listing)
             rest == candidates(Tail(listing), folder_path, filename_prefix,
                                ext_name, tiangan_order)
             version == get_tiangan_from_filename(file_stem(entry)[1],
                                                  filename_prefix, tiangan_order)
         IN  IF extension(entry) # Some(ext_name) THEN rest
             ELSE IF file_stem(entry) = None THEN rest
             ELSE IF version = None THEN rest
             ELSE <<<<version[1], join(folder_path, entry)>>>> \o rest

\* the closing .map of the selector: the hidden-file rewrite of the selected path
hidden_rewrite(path, filename_prefix, hidden_filename_prefix) ==
    LET new_filename == IF file_name(path) = None THEN <<>> ELSE file_name(path)[1]
    IN  IF starts_with(new_filename, filename_prefix)
        THEN with_file_name(path, replace(new_filename, filename_prefix,
                                          hidden_filename_prefix))
        ELSE with_file_name(path, <<>>)

\* read_dir is None when the directory cannot be read, Some(listing) otherwise
get_filename_with_largest_tiangan(read_dir, folder_path, filename_prefix, hidden_filename_prefix, ext_name, tiangan_order, is_hidden_file) ==
    IF read_dir = None THEN None
    ELSE LET best == max_by_key(candidates(read_dir[1], folder_path, filename_prefix,
                                           ext_name, tiangan_order))
         IN  IF best = None THEN None
             ELSE IF ~is_hidden_file THEN Some(best[1][2])
             ELSE Some(hidden_rewrite(best[1][2], filename_prefix,
                                      hidden_filename_prefix))

(***************************************************************************)
(* Events and their classification.                                        *)
(***************************************************************************)
Event(kind, paths) == [res |-> "Ok", kind |-> kind, paths |-> paths]

ErrItem == [res |-> "Err", kind |-> "Err", paths |-> <<>>]

Stamp(item, n) == [res |-> item.res, kind |-> item.kind, paths |-> item.paths, seq |-> n]

unwrap_or(opt, default) == IF opt = None THEN default ELSE opt[1]

\* find_map: the file name of the first path that has one
get_filename_from_event(event) ==
    LET named == {i \in 1..Len(event.paths) : file_name(event.paths[i]) # None}
    IN  IF named = {} THEN None
        ELSE file_name(event.paths[CHOOSE i \in named : \A j \in named : i <= j])

\* a comparison of whole paths: some path of the event is the file of that
\* name in the listened directory
is_same_file_in_directory(event, expected_filename) ==
    \E i \in 1..Len(event.paths) : event.paths[i] = join("W", expected_filename)

is_same_file(event, expected_filename) ==
    /\ get_filename_from_event(event) # None
    /\ get_filename_from_event(event)[1] = expected_filename

\* a match that accepts every event with a path when no file is expected
is_expected_file_by_default(event, read_dir, folder_path, filename_prefix, hidden_filename_prefix, ext_name, tiangan_order, is_hidden_file) ==
    LET expected_hidden_filename ==
            get_filename_with_largest_tiangan(read_dir, folder_path, filename_prefix,
                                              hidden_filename_prefix, ext_name,
                                              tiangan_order, is_hidden_file)
    IN  IF expected_hidden_filename # None
        THEN \E i \in 1..Len(event.paths) : event.paths[i] = expected_hidden_filename[1]
        ELSE event.paths # <<>>

is_expected_file(event, read_dir, folder_path, filename_prefix, hidden_filename_prefix, ext_name, tiangan_order, is_hidden_file) ==
    LET expected_hidden_filename ==
            get_filename_with_largest_tiangan(read_dir, folder_path, filename_prefix,
                                              hidden_filename_prefix, ext_name,
                                              tiangan_order, is_hidden_file)
    IN  IF expected_hidden_filename # None
        THEN \E i \in 1..Len(event.paths) : event.paths[i] = expected_hidden_filename[1]
        ELSE FALSE

(***************************************************************************)
(* The arms of run_watcher's match.  st is the lifecycle state             *)
(* [opened, modified, cur]; the result adds fire (run_script is called)    *)
(* and brk (the loop is left).                                             *)
(***************************************************************************)
Outcome(opened, modified, cur_name, fire, brk) ==
    [opened |-> opened, modified |-> modified, cur |-> cur_name, fire |-> fire, brk |-> brk]

Keep(st) == Outcome(st.opened, st.modified, st.cur, FALSE, FALSE)

\* a Create arm that leaves is_expected_file_modified as it is
on_create_keeps_modified(st, event, read_dir, c) ==
    IF is_expected_file(event, read_dir, c.listened_directory, c.filename_prefix,
                        c.hidden_filename_prefix, c.ext_name, generate_tiangan_map, TRUE)
    THEN Outcome(TRUE, st.modified, unwrap_or(get_filename_from_event(event), <<>>),
                 FALSE, FALSE)
    ELSE Keep(st)

on_create(st, event, read_dir, c) ==
    IF is_expected_file(event, read_dir, c.listened_directory, c.filename_prefix,
                        c.hidden_filename_prefix, c.ext_name, generate_tiangan_map, TRUE)
    THEN Outcome(TRUE, FALSE, unwrap_or(get_filename_from_event(event), <<>>), FALSE, FALSE)
    ELSE Keep(st)

on_modify(st, event, read_dir, c) ==
    IF is_expected_file(event, read_dir, c.listened_directory, c.filename_prefix,
                        c.hidden_filename_prefix, c.ext_name, generate_tiangan_map, FALSE)
    THEN Outcome(st.opened, TRUE, st.cur, FALSE, FALSE)
    ELSE Keep(st)

\* a Remove arm that forgets the open flag but keeps the modified flag
on_remove_keeps_modified(st, event) ==
    IF st.opened /\ st.modified /\ is_same_file(event, st.cur)
    THEN Outcome(FALSE, st.modified, <<>>, TRUE, FALSE)
    ELSE Keep(st)

\* a Remove arm that does not compare the file name
on_remove_any_file(st, event) ==
    IF st.opened /\ st.modified
    THEN Outcome(FALSE, FALSE, <<>>, TRUE, FALSE)
    ELSE Keep(st)

on_remove(st, event) ==
    IF st.opened /\ st.modified /\ is_same_file(event, st.cur)
    THEN Outcome(FALSE, FALSE, <<>>, TRUE, FALSE)
    ELSE Keep(st)

\* an Access arm that falls through to the terminating arm
on_access_breaks(st) == Outcome(st.opened, st.modified, st.cur, FALSE, TRUE)

on_access(st) == Keep(st)

\* a catch-all arm that goes on with the loop
on_other_continues(st) == Keep(st)

on_other(st) == Outcome(st.opened, st.modified, st.cur, FALSE, TRUE)

\* an error arm that ends the loop
on_error_breaks(st) == Outcome(st.opened, st.modified, st.cur, FALSE, TRUE)

on_error(st) == Keep(st)

\* the body of the for loop: match res { Ok(event) => match event.kind ..., Err(e) => ... }
handle(st, res, read_dir, c) ==
    IF res.res = "Err" THEN on_error(st)
    ELSE CASE res.kind = "Create" -> on_create(st, res, read_dir, c)
           [] res.kind = "Modify" -> on_modify(st, res, read_dir, c)
           [] res.kind = "Remove" -> on_remove(st, res)
           [] res.kind = "Access" -> on_access(st)
           [] OTHER -> on_other(st)

\* a channel that hands out the newest item first
recv_newest(q) == <<q[Len(q)], SubSeq(q, 1, Len(q) - 1)>>

\* the receiving end of the channel: the oldest item, and what stays queued
recv(q) == <<Head(q), Tail(q)>>

\* run_script: false when the directory or the script is missing, when the
\* process cannot be started or when it exits with a non-zero code
ScriptOutcomes == {"no_directory", "no_file", "spawn_error", "exit_zero", "exit_nonzero"}

run_script(outcome) == outcome = "exit_zero"

\* whether run_script gets as far as starting the command
spawns(outcome) == outcome \notin {"no_directory", "no_file"}

\* the notification the firing arm asks for
notification(ok) == IF ok THEN "success" ELSE "failure"

(***************************************************************************)
(* The watched directory and the events of the model.                      *)
(***************************************************************************)
W == "W"

MainCfg ==
    [listened_directory |-> W, filename_prefix |-> <<"A">>,
     hidden_filename_prefix |-> <<"~", "A">>, ext_name |-> <<"x">>]

Visible(s) == <<"A", s, ".", "x">>

Hidden(s) == <<"~", "A", s, ".", "x">>

MainFiles == {Visible("yi"), Visible("bing")}

RootPath == [dir |-> "/", name |-> <<>>]

FsItems ==
    {Event("Create", ps) : ps \in {<<join(W, Hidden("bing"))>>, <<join(W, Hidden("yi"))>>,
                                   <<join(W, Hidden("yi")), join(W, Hidden("bing"))>>}}
    \cup {Event("Modify", ps) : ps \in {<<join(W, Visible("bing"))>>,
                                        <<join(W, Visible("yi"))>>}}
    \cup {Event("Remove", ps) : ps \in {<<join(W, Hidden("bing"))>>, <<join(W, Hidden("yi"))>>,
                                        <<RootPath, join("W/sub", Hidden("bing"))>>}}
    \cup {Event("Access", <<join(W, Visible("bing"))>>), ErrItem}

\* every order in which read_dir may list the entries
Listings(entries) ==
    {l \in [1..Cardinality(entries) -> entries] :
        \A i, j \in 1..Cardinality(entries) : l[i] = l[j] => i = j}

ReadDir == IF readable THEN {Some(l) : l \in Listings(dir)} ELSE {None}

Running == pc \in {"load_config", "recommended_watcher", "watch", "loop", "script",
                   "notification", "broke"}

Lifecycle ==
    [opened |-> is_expected_hidden_file_opened, modified |-> is_expected_file_modified,
     cur |-> cur_expected_hidden_filename]

NoCycle(n) == [k |-> 0, pos |-> 0, f |-> <<>>, base |-> n]

NoItem == [kind |-> "none", seq |-> 0]

\* by: the paths of the Remove event that fired last
NoAction ==
    [by |-> <<>>, calls |-> 0, spawned |-> 0, outcome |-> "none", notified |-> 0,
     note |-> "none"]

NoRestart == [pos |-> 0, f |-> <<>>]

Init ==
    /\ variant \in {"debug", "release"}
    /\ cfg = MainCfg
    /\ readable = TRUE
    /\ dir \in SUBSET MainFiles
    /\ pc = "load_config"
    /\ watching = FALSE
    /\ queue = <<>>
    /\ produced = 0
    /\ consumed = 0
    /\ is_expected_hidden_file_opened = FALSE
    /\ is_expected_file_modified = FALSE
    /\ cur_expected_hidden_filename = <<>>
    /\ success = FALSE
    /\ inflight = 0
    /\ status = IF variant = "release" THEN "Running" ELSE "none"
    /\ call = None
    /\ last = NoItem
    /\ fired = 0
    /\ shown = 0
    /\ creates = 0
    /\ session = "none"
    /\ cycles = NoCycle(0)
    /\ config_ok \in BOOLEAN
    /\ action = NoAction
    /\ restart = NoRestart
    /\ modified_by = None
    /\ reported = IF variant = "release" THEN <<"Running">> ELSE <<>>
    /\ matched = NoRestart

env_vars == <<readable, dir>>

watcher_vars ==
    <<pc, watching, is_expected_hidden_file_opened, is_expected_file_modified,
      cur_expected_hidden_filename, success, inflight, status, last, fired, shown,
      creates, session, cycles, consumed, config_ok, action, restart, modified_by, reported, matched>>

(***************************************************************************)
(* Start of run_watcher.                                                   *)
(***************************************************************************)
\* a start that goes on with default settings when path.toml cannot be loaded
load_config_or_default ==
    /\ pc = "load_config"
    /\ pc' = "recommended_watcher"
    /\ UNCHANGED <<variant, cfg, readable, dir, watching, queue, produced, consumed,
                   is_expected_hidden_file_opened, is_expected_file_modified,
                   cur_expected_hidden_filename, success, inflight, status, call,
                   last, fired, shown, creates, session, cycles,
                   config_ok, action, restart, modified_by, reported, matched>>

\* load_config(config_path)?: a missing or malformed path.toml ends run_watcher
load_config ==
    /\ pc = "load_config"
    /\ pc' = IF config_ok THEN "recommended_watcher" ELSE "error"
    /\ UNCHANGED <<variant, cfg, readable, dir, watching, queue, produced, consumed,
                   is_expected_hidden_file_opened, is_expected_file_modified,
                   cur_expected_hidden_filename, success, inflight, status, call,
                   last, fired, shown, creates, session, cycles,
                   config_ok, action, restart, modified_by, reported, matched>>

recommended_watcher ==
    /\ pc = "recommended_watcher"
    /\ \E ok \in BOOLEAN : pc' = IF ok THEN "watch" ELSE "error"
    /\ UNCHANGED <<variant, cfg, readable, dir, watching, queue, produced, consumed,
                   is_expected_hidden_file_opened, is_expected_file_modified,
                   cur_expected_hidden_filename, success, inflight, status, call,
                   last, fired, shown, creates, session, cycles,
                   config_ok, action, restart, modified_by, reported, matched>>

\* watcher.watch(...).unwrap_or(()): a failed registration is dropped
watch ==
    /\ pc = "watch"
    /\ \E ok \in BOOLEAN : watching' = ok
    /\ pc' = "loop"
    /\ UNCHANGED <<variant, cfg, readable, dir, queue, produced, consumed,
                   is_expected_hidden_file_opened, is_expected_file_modified,
                   cur_expected_hidden_filename, success, inflight, status, call,
                   last, fired, shown, creates, session, cycles,
                   config_ok, action, restart, modified_by, reported, matched>>

(***************************************************************************)
(* The producers of the channel.                                           *)
(***************************************************************************)
Send(item, budget) ==
    /\ produced < budget
    /\ Len(queue) < MaxQueue
    /\ queue' = Append(queue, Stamp(item, produced + 1))
    /\ produced' = produced + 1

notifier ==
    /\ Running
    /\ watching
    /\ \E item \in FsItems : Send(item, MaxEvents)
    /\ UNCHANGED <<variant, cfg, call>>
    /\ UNCHANGED env_vars
    /\ UNCHANGED watcher_vars

\* the service control handler on ServiceControl::Stop
stop_handler ==
    /\ Running
    /\ variant = "release"
    /\ Send(Event("Other", <<>>), MaxEvents)
    /\ UNCHANGED <<variant, cfg, call>>
    /\ UNCHANGED env_vars
    /\ UNCHANGED watcher_vars

(***************************************************************************)
(* The event loop of run_watcher.                                          *)
(***************************************************************************)
\* the item is a Create or Modify event that is_expected_file accepts
Matches(res, read_dir, c) ==
    /\ res.res = "Ok"
    /\ res.kind \in {"Create", "Modify"}
    /\ is_expected_file(res, read_dir, c.listened_directory, c.filename_prefix,
                        c.hidden_filename_prefix, c.ext_name, generate_tiangan_map,
                        res.kind = "Create")

\* the expected hidden file at the time of the item, None if there is none
ExpectedHidden(read_dir, c) ==
    get_filename_with_largest_tiangan(read_dir, c.listened_directory, c.filename_prefix,
                                      c.hidden_filename_prefix, c.ext_name,
                                      generate_tiangan_map, TRUE)

\* the expected visible file at the time of the item, None if there is none
ExpectedVisible(read_dir, c) ==
    get_filename_with_largest_tiangan(read_dir, c.listened_directory, c.filename_prefix,
                                      c.hidden_filename_prefix, c.ext_name,
                                      generate_tiangan_map, FALSE)

\* a Create event for the expected hidden file F: it matches, and F is the
\* file name the event reports
CreateOfExpected(res, read_dir, c) ==
    /\ res.kind = "Create"
    /\ Matches(res, read_dir, c)
    /\ get_filename_from_event(res) = file_name(ExpectedHidden(read_dir, c)[1])

\* matches: Matches of the item; create_f: CreateOfExpected of the item
NextSession(old, res, matches) ==
    IF res.kind = "Create" /\ matches THEN "created"
    ELSE IF res.kind = "Modify" /\ matches /\ old # "none" THEN "modified"
    ELSE old

\* progress through consecutive [Create(F), Modify, Remove(F)] sequences:
\* k sequences completed, pos items of the next one seen, base = fired before the first
NextCycles(old, res, matches, create_f, fired_before, fired_after) ==
    IF create_f
    THEN IF old.pos = 0
         THEN [old EXCEPT !.pos = 1, !.f = get_filename_from_event(res)[1]]
         ELSE [k |-> 0, pos |-> 1, f |-> get_filename_from_event(res)[1],
               base |-> fired_before]
    ELSE IF res.kind = "Modify" /\ matches /\ old.pos = 1
    THEN [old EXCEPT !.pos = 2]
    ELSE IF res.res = "Ok" /\ res.kind = "Remove" /\ old.pos = 2
            /\ get_filename_from_event(res) = Some(old.f)
    THEN [k |-> old.k + 1, pos |-> 0, f |-> <<>>, base |-> old.base]
    ELSE NoCycle(fired_after)

\* progress through one [Create(F), Modify, Create(F), Remove(F)] sequence
NextRestart(old, res, matches, create_f) ==
    IF create_f
    THEN IF old.pos = 2 /\ get_filename_from_event(res) = Some(old.f)
         THEN [old EXCEPT !.pos = 3]
         ELSE [pos |-> 1, f |-> get_filename_from_event(res)[1]]
    ELSE IF res.kind = "Modify" /\ matches /\ old.pos = 1
    THEN [old EXCEPT !.pos = 2]
    ELSE IF res.res = "Ok" /\ res.kind = "Remove" /\ old.pos = 3
            /\ get_filename_from_event(res) = Some(old.f)
    THEN [old EXCEPT !.pos = 4]
    ELSE NoRestart

\* the file name of the expected visible file of the Modify that set the flag,
\* None once a matching Create or the firing has cleared the flag
NextModifiedBy(old, res, matches, read_dir, c, fire) ==
    IF res.kind = "Modify" /\ matches
    THEN file_name(ExpectedVisible(read_dir, c)[1])
    ELSE IF fire \/ (res.kind = "Create" /\ matches) THEN None
    ELSE old

\* progress through one [Create matching the expected hidden file F, Modify
\* matching the expected visible file] sequence: f is the file name of F
NextMatched(old, res, matches, read_dir, c) ==
    IF res.kind = "Create" /\ matches
    THEN [pos |-> 1, f |-> file_name(ExpectedHidden(read_dir, c)[1])[1]]
    ELSE IF res.kind = "Modify" /\ matches /\ old.pos = 1
    THEN [old EXCEPT !.pos = 2]
    ELSE NoRestart

receive ==
    /\ pc = "loop"
    /\ queue # <<>>
    /\ \E read_dir \in ReadDir :
       \E res \in {recv(queue)[1]} :
       \E out \in {handle(Lifecycle, res, read_dir, cfg)} :
       \E n \in {IF out.fire THEN 1 ELSE 0} :
       \E matches \in {Matches(res, read_dir, cfg)} :
       \E create_f \in {matches /\ CreateOfExpected(res, read_dir, cfg)} :
            /\ queue' = recv(queue)[2]
            /\ consumed' = consumed + 1
            /\ is_expected_hidden_file_opened' = out.opened
            /\ is_expected_file_modified' = out.modified
            /\ cur_expected_hidden_filename' = out.cur
            /\ fired' = fired + n
            /\ inflight' = inflight + n
            /\ pc' = IF out.brk THEN "broke" ELSE IF out.fire THEN "script" ELSE "loop"
            /\ last' = [kind |-> res.kind, seq |-> res.seq]
            /\ creates' = creates + IF res.kind = "Create" /\ matches
                                    THEN 1 ELSE 0
            /\ session' = NextSession(session, res, matches)
            /\ cycles' = NextCycles(cycles, res, matches, create_f, fired, fired + n)
            /\ restart' = NextRestart(restart, res, matches, create_f)
            /\ modified_by' = NextModifiedBy(modified_by, res, matches, read_dir, cfg,
                                             out.fire)
            /\ action' = IF out.fire THEN [action EXCEPT !.by = res.paths] ELSE action
            /\ matched' = NextMatched(matched, res, matches, read_dir, cfg)
    /\ UNCHANGED <<variant, cfg, readable, dir, watching, produced, success, status,
                   call, shown, config_ok, reported>>

\* the run_script call of the firing arm returns
script ==
    /\ pc = "script"
    /\ \E outcome \in ScriptOutcomes :
        /\ success' = run_script(outcome)
        /\ action' = [action EXCEPT !.calls = @ + 1, !.outcome = outcome,
                                    !.spawned = @ + IF spawns(outcome) THEN 1 ELSE 0]
    /\ pc' = "notification"
    /\ UNCHANGED <<variant, cfg, readable, dir, watching, queue, produced, consumed,
                   is_expected_hidden_file_opened, is_expected_file_modified,
                   cur_expected_hidden_filename, inflight, status, call,
                   last, fired, shown, creates, session, cycles,
                   config_ok, restart, modified_by, reported, matched>>

\* show_notification: the toast is shown, or .expect panics; the panic unwinds
\* out of run_watcher and drops the watcher
show_notification ==
    /\ pc = "notification"
    /\ \E ok \in BOOLEAN :
        /\ pc' = IF ok THEN "loop" ELSE "panicked"
        /\ shown' = shown + IF ok THEN 1 ELSE 0
        /\ watching' = IF ok THEN watching ELSE FALSE
    /\ action' = [action EXCEPT !.notified = @ + 1, !.note = notification(success)]
    /\ inflight' = inflight - 1
    /\ UNCHANGED <<variant, cfg, readable, dir, queue, produced, consumed,
                   is_expected_hidden_file_opened, is_expected_file_modified,
                   cur_expected_hidden_filename, success, status, call,
                   last, fired, creates, session, cycles,
                   config_ok, restart, modified_by, reported, matched>>

\* run_watcher returns Ok(()) after the break and the watcher is dropped;
\* run_service then calls set_service_status(Stopped), which the host takes or
\* answers with an error (the error leaves run_service through `?`)
return ==
    /\ pc = "broke"
    /\ pc' = "returned"
    /\ watching' = FALSE
    /\ \E ok \in BOOLEAN :
        status' = IF variant = "release" /\ ok THEN "Stopped" ELSE status
    /\ reported' = IF variant = "release" THEN Append(reported, "Stopped") ELSE reported
    /\ UNCHANGED <<variant, cfg, readable, dir, queue, produced, consumed,
                   is_expected_hidden_file_opened, is_expected_file_modified,
                   cur_expected_hidden_filename, success, inflight, call,
                   last, fired, shown, creates, session, cycles,
                   config_ok, action, restart, modified_by, matched>>

(***************************************************************************)
(* The filesystem around the watcher.                                      *)
(***************************************************************************)
add_file ==
    /\ Running
    /\ readable
    /\ Cardinality(dir) < MaxDirEntries
    /\ \E n \in MainFiles \ dir : dir' = dir \cup {n}
    /\ UNCHANGED <<variant, cfg, readable, queue, produced, call>>
    /\ UNCHANGED watcher_vars

remove_file ==
    /\ Running
    /\ readable
    /\ \E n \in dir : dir' = dir \ {n}
    /\ UNCHANGED <<variant, cfg, readable, queue, produced, call>>
    /\ UNCHANGED watcher_vars

Next ==
    \/ load_config
    \/ recommended_watcher
    \/ watch
    \/ notifier
    \/ stop_handler
    \/ receive
    \/ script
    \/ show_notification
    \/ return
    \/ add_file
    \/ remove_file

Spec == Init /\ [][Next]_vars

(***************************************************************************)
(* Stopping the service: the same program with a notifier that reports one *)
(* lifecycle of one file, in a directory that does not change.  The loop   *)
(* thread runs whenever it can: it takes the next item as soon as one is   *)
(* queued, a started script terminates, show_notification comes back (or   *)
(* panics) and run_watcher returns after the break.                        *)
(***************************************************************************)
StopItems ==
    {Event("Create", <<join(W, Hidden("bing"))>>),
     Event("Modify", <<join(W, Visible("bing"))>>),
     Event("Remove", <<join(W, Hidden("bing"))>>)}

stop_notifier ==
    /\ Running
    /\ watching
    /\ \E item \in StopItems : Send(item, MaxStopEvents)
    /\ UNCHANGED <<variant, cfg, call>>
    /\ UNCHANGED env_vars
    /\ UNCHANGED watcher_vars

StopNext ==
    \/ load_config
    \/ recommended_watcher
    \/ watch
    \/ stop_notifier
    \/ stop_handler
    \/ receive
    \/ script
    \/ show_notification
    \/ return

\* weak fairness of receive, with ENABLED <<receive>>_vars written out: the
\* loop is at the head of `for res in rx` and the channel is not empty
ReceiveFairness == []<>~(pc = "loop" /\ queue # <<>>) \/ []<><<receive>>_vars

FairSpec ==
    /\ Init
    /\ [][StopNext]_vars
    /\ ReceiveFairness
    /\ WF_vars(script)
    /\ WF_vars(show_notification)
    /\ WF_vars(return)

(***************************************************************************)
(* Runs of complete lifecycle sequences: the same program with a notifier  *)
(* that reports the events of one version of the file, and a larger budget *)
(* of events.                                                              *)
(***************************************************************************)
CycleItems ==
    {Event("Create", <<join(W, Hidden("bing"))>>),
     Event("Modify", <<join(W, Visible("bing"))>>),
     Event("Remove", <<join(W, Hidden("bing"))>>),
     Event("Remove", <<join(W, Hidden("yi"))>>),
     Event("Access", <<join(W, Visible("bing"))>>)}

cycle_notifier ==
    /\ Running
    /\ watching
    /\ \E item \in CycleItems : Send(item, MaxCycleEvents)
    /\ UNCHANGED <<variant, cfg, call>>
    /\ UNCHANGED env_vars
    /\ UNCHANGED watcher_vars

cycle_stop_handler ==
    /\ Running
    /\ variant = "release"
    /\ Send(Event("Other", <<>>), MaxCycleEvents)
    /\ UNCHANGED <<variant, cfg, call>>
    /\ UNCHANGED env_vars
    /\ UNCHANGED watcher_vars

CycleNext ==
    \/ load_config
    \/ recommended_watcher
    \/ watch
    \/ cycle_notifier
    \/ cycle_stop_handler
    \/ receive
    \/ script
    \/ show_notification
    \/ return
    \/ add_file
    \/ remove_file

CycleSpec == Init /\ [][CycleNext]_vars

(***************************************************************************)
(* The selector and the match as functions of their inputs: every          *)
(* directory of up to MaxDirEntries entries, listed in every order.        *)
(***************************************************************************)
SelConfigs ==
    {[listened_directory |-> W, filename_prefix |-> p[1],
      hidden_filename_prefix |-> p[2], ext_name |-> <<"x">>] :
        p \in {<<<<"A">>, <<"~", "A">>>>, <<<<"x">>, <<"~", "x">>>>,
               <<<<"jia">>, <<"~">>>>, <<<<>>, <<"~">>>>}}

SelFiles ==
    {<<"A", "jia", ".", "x">>, <<"A", "yi", ".", "x">>, <<"A", "bing", ".", "x">>,
     <<"x", "jia", ".", "x">>, <<"jia", "jia", ".", "x">>, <<"jia", ".", "x">>,
     <<"A", "jia", ".", "y">>, <<"A", "jia", "yi", ".", "x">>,
     <<"~", "A", "bing", ".", "x">>, <<"A", "jia">>}

SelLifecycles ==
    {[opened |-> FALSE, modified |-> FALSE, cur |-> <<>>],
     [opened |-> TRUE, modified |-> TRUE, cur |-> Hidden("bing")]}

SelEvents ==
    {Event(k, ps) :
        k \in {"Create", "Modify"},
        ps \in {<<>>, <<join(W, Hidden("bing"))>>, <<join(W, Visible("bing"))>>,
                <<join(W, <<"A", "jia", ".", "y">>), join(W, <<>>)>>}}

SelInit ==
    /\ variant = "debug"
    /\ cfg \in SelConfigs
    /\ readable \in BOOLEAN
    /\ dir \in {d \in SUBSET SelFiles : Cardinality(d) <= MaxDirEntries}
    /\ ~readable => dir = {}
    /\ pc = "load_config"
    /\ watching = FALSE
    /\ queue = <<>>
    /\ produced = 0
    /\ consumed = 0
    /\ is_expected_hidden_file_opened = FALSE
    /\ is_expected_file_modified = FALSE
    /\ cur_expected_hidden_filename = <<>>
    /\ success = FALSE
    /\ inflight = 0
    /\ status = "none"
    /\ call = None
    /\ last = NoItem
    /\ fired = 0
    /\ shown = 0
    /\ creates = 0
    /\ session = "none"
    /\ cycles = NoCycle(0)
    /\ config_ok = TRUE
    /\ action = NoAction
    /\ restart = NoRestart
    /\ modified_by = None
    /\ reported = IF variant = "release" THEN <<"Running">> ELSE <<>>
    /\ matched = NoRestart

\* get_filename_with_largest_tiangan called on the directory as it is
select ==
    /\ call = None
    /\ \E read_dir \in ReadDir, is_hidden_file \in BOOLEAN :
        call' = Some([op |-> "select", read_dir |-> read_dir,
                      is_hidden_file |-> is_hidden_file,
                      result |-> get_filename_with_largest_tiangan(
                                    read_dir, cfg.listened_directory, cfg.filename_prefix,
                                    cfg.hidden_filename_prefix, cfg.ext_name,
                                    generate_tiangan_map, is_hidden_file)])
    /\ UNCHANGED <<variant, cfg, readable, dir, queue, produced>>
    /\ UNCHANGED watcher_vars

\* the match of run_watcher applied to one event in one lifecycle state
dispatch ==
    /\ call = None
    /\ \E read_dir \in ReadDir, st \in SelLifecycles, event \in SelEvents :
        call' = Some([op |-> "handle", st |-> st, event |-> event,
                      out |-> handle(st, event, read_dir, cfg)])
    /\ UNCHANGED <<variant, cfg, readable, dir, queue, produced>>
    /\ UNCHANGED watcher_vars

SelNext == select \/ dispatch

SelSpec == SelInit /\ [][SelNext]_vars

(***************************************************************************)
(* Properties of the lifecycle tracker.                                    *)
(***************************************************************************)
\* the loop takes an item from the channel in this step
Handling == pc = "loop" /\ queue # <<>> /\ consumed' = consumed + 1

HandlingKind(kind) == Handling /\ Head(queue).res = "Ok" /\ Head(queue).kind = kind

LifecycleUnchanged ==
    UNCHANGED <<is_expected_hidden_file_opened, is_expected_file_modified,
                cur_expected_hidden_filename>>

\* C1: run_script is fired only while a Remove event is handled, and only if a
\* Modify event matching the expected visible file was handled since the most
\* recent Create event that matched the expected hidden file; so [Create(F),
\* Remove(F)] does not fire, and a Modify seen before that Create does not count.
C1_FiresOnlyOnRemoveAfterModify ==
    [][fired' # fired =>
        /\ HandlingKind("Remove")
        /\ fired' = fired + 1
        /\ session = "modified"]_vars

C1_Witness ==
    /\ fired = 1
    /\ last.kind = "Remove"
    /\ pc = "script"
    /\ session = "modified"

\* C2: [Create matching the expected hidden file F, Modify matching the
\* expected visible file, Remove with file name F] fires exactly once (nothing
\* on the Create and the Modify, once on the Remove), whatever paths the
\* matching Create reports; and the number of firings never exceeds the number
\* of matching Create events handled.
C2_OneFiringPerSession ==
    /\ [](fired <= creates)
    /\ [][/\ (matched'.pos \in {1, 2} => fired' = fired)
          /\ ((matched.pos = 2 /\ HandlingKind("Remove")
                /\ get_filename_from_event(Head(queue)) = Some(matched.f))
              => fired' = fired + 1)]_vars

\* C3: a firing Remove resets the lifecycle state (not open, not modified, no
\* tracked file name), and k consecutive complete [Create, Modify, Remove(F)]
\* sequences produce exactly k firings.
C3_RearmsAfterFiring ==
    /\ [](cycles.pos = 0 => fired = cycles.base + cycles.k)
    /\ [][fired' # fired =>
            /\ ~is_expected_hidden_file_opened'
            /\ ~is_expected_file_modified'
            /\ cur_expected_hidden_filename' = <<>>]_vars

C3_Witness ==
    /\ cycles.k = 2
    /\ cycles.pos = 0
    /\ consumed = 6
    /\ fired = 2

\* C4: a Remove event that fails one of the three firing conditions (open,
\* modified, same file name) does not fire and leaves the three lifecycle
\* fields unchanged; [Create(F), Modify, Remove(G)] with G # F stays Tracking.
C4_IgnoredRemoveChangesNothing ==
    [][/\ HandlingKind("Remove")
       /\ ~(/\ is_expected_hidden_file_opened
            /\ is_expected_file_modified
            /\ get_filename_from_event(Head(queue)) = Some(cur_expected_hidden_filename))
       => fired' = fired /\ pc' = "loop" /\ LifecycleUnchanged]_vars

C4_Witness ==
    /\ last.kind = "Remove"
    /\ consumed = 3
    /\ creates = 1
    /\ fired = 0
    /\ is_expected_hidden_file_opened
    /\ is_expected_file_modified
    /\ cur_expected_hidden_filename = Hidden("bing")

(***************************************************************************)
(* Properties of the version selector and of the match.                    *)
(***************************************************************************)
\* name is the visible prefix, one symbol of the alphabet, '.', the extension
SymbolOf(name, c) ==
    {i \in 1..Len(Tiangan) :
        /\ "." \notin {c.ext_name[j] : j \in 1..Len(c.ext_name)}
        /\ name = c.filename_prefix \o <<Tiangan[i]>> \o <<".">> \o c.ext_name}

Versioned(entries, c) == {name \in entries : SymbolOf(name, c) # {}}

RankOf(name, c) == (CHOOSE i \in SymbolOf(name, c) : TRUE) - 1

Largest(entries, c) ==
    CHOOSE name \in Versioned(entries, c) :
        \A other \in Versioned(entries, c) : RankOf(other, c) <= RankOf(name, c)

Selected(is_hidden_file) ==
    call # None /\ call[1].op = "select" /\ call[1].is_hidden_file = is_hidden_file

\* C5: in whatever order the directory is listed, the selector returns the
\* entry prefix + symbol + '.' + extension whose symbol has the largest rank;
\* the other entries have no influence, and there is no result without such
\* an entry.
C5_SelectsLargestTiangan ==
    Selected(FALSE) =>
        call[1].result =
            IF readable /\ Versioned(dir, cfg) # {}
            THEN Some(join(cfg.listened_directory, Largest(dir, cfg)))
            ELSE None

C5_Witness ==
    /\ Selected(FALSE)
    /\ cfg.filename_prefix = <<"A">>
    /\ call[1].read_dir =
          Some(<<<<"A", "jia", ".", "x">>, <<"A", "bing", ".", "x">>, <<"A", "yi", ".", "x">>>>)
    /\ call[1].result = Some(join(W, <<"A", "bing", ".", "x">>))

\* C6: in hidden-file mode the selector returns the selected file name with
\* only its leading visible prefix replaced by the hidden prefix, also when
\* the prefix occurs again in the symbol or in the extension.
C6_OnlyLeadingPrefixRewritten ==
    Selected(TRUE) /\ call[1].result # None =>
        call[1].result =
            Some(join(cfg.listened_directory,
                      cfg.hidden_filename_prefix
                        \o SubSeq(Largest(dir, cfg), Len(cfg.filename_prefix) + 1,
                                  Len(Largest(dir, cfg)))))

\* C7: when the directory is unreadable, empty or without an entry prefix +
\* symbol + '.' + extension, the selector returns nothing and no Create or
\* Modify event changes the lifecycle state, whatever its paths; an event
\* without paths never changes it either.
NothingExpected == ~readable \/ Versioned(dir, cfg) = {}

C7_NothingExpectedNothingMatches ==
    /\ (call # None /\ call[1].op = "select" /\ NothingExpected)
            => call[1].result = None
    /\ (call # None /\ call[1].op = "handle"
            /\ (NothingExpected \/ call[1].event.paths = <<>>))
            => call[1].out = Keep(call[1].st)

C7_Witness ==
    /\ call # None
    /\ call[1].op = "handle"
    /\ readable
    /\ dir # {}
    /\ Versioned(dir, cfg) = {}
    /\ call[1].event = Event("Create", <<join(W, Hidden("bing"))>>)
    /\ call[1].st.opened
    /\ call[1].out = Keep(call[1].st)

(***************************************************************************)
(* Properties of the event loop.                                           *)
(***************************************************************************)
\* C8: an Access event changes no field of the lifecycle state and fires
\* nothing, in whatever state it is handled, and the loop goes on.
C8_AccessChangesNothing ==
    [][HandlingKind("Access") => fired' = fired /\ pc' = "loop" /\ LifecycleUnchanged]_vars

C8_Witness ==
    /\ last.kind = "Access"
    /\ pc = "loop"
    /\ is_expected_hidden_file_opened
    /\ is_expected_file_modified
    /\ cur_expected_hidden_filename = Hidden("bing")

\* C9: an event of any other kind than create, modify, remove and access ends
\* the loop without changing the lifecycle state and without firing, and no
\* item queued behind it is handled afterwards.
C9_OtherKindEndsLoop ==
    [][/\ (Handling /\ Head(queue).res = "Ok"
             /\ Head(queue).kind \notin {"Create", "Modify", "Remove", "Access"}
             => pc' = "broke" /\ fired' = fired /\ LifecycleUnchanged)
       /\ (pc \in {"broke", "returned"}
             => /\ pc' \in {"broke", "returned"}
                /\ consumed' = consumed
                /\ fired' = fired
                /\ \A i \in 1..Len(queue) : queue'[i] = queue[i]
                /\ LifecycleUnchanged)]_vars

C9_Witness ==
    /\ pc = "returned"
    /\ last.kind = "Other"
    /\ fired = 0
    /\ Len(queue) = 2
    /\ queue[1] = Stamp(Event("Create", <<join(W, Hidden("bing"))>>), last.seq + 1)
    /\ queue[2] = Stamp(Event("Modify", <<join(W, Visible("bing"))>>), last.seq + 2)
    /\ Visible("bing") \in dir

\* C10: with the notifier and the stop handler both sending on the channel,
\* the items are handled in the order of their arrival, none is taken while a
\* fired action (script and notification) is in progress, and at most one
\* action is in progress at any time.
C10_SerialInArrivalOrder ==
    /\ [](inflight <= 1)
    /\ [](inflight = 1 <=> pc \in {"script", "notification"})
    /\ [][consumed' # consumed => inflight = 0 /\ last'.seq = consumed + 1]_vars

C10_Witness ==
    /\ variant = "release"
    /\ pc = "script"
    /\ inflight = 1
    /\ last.kind = "Remove"
    /\ queue = <<Stamp(Event("Other", <<>>), last.seq + 1)>>

Idle ==
    /\ ~is_expected_hidden_file_opened
    /\ ~is_expected_file_modified
    /\ cur_expected_hidden_filename = <<>>

\* C11: each firing makes one run_script call and shows exactly one
\* notification; the notification is the success one exactly when the script
\* directory and file exist and the command exits with code 0, the failure one
\* otherwise, and no process is started when the directory or the file is
\* missing; a failed script is not run again and the action does not end the
\* loop: after the notification step the loop goes on from the Idle state with
\* the queue as it was.
C11_OneAttemptOneNotification ==
    /\ [](action.calls = fired - (IF pc = "script" THEN 1 ELSE 0))
    /\ [](shown = fired - inflight)
    /\ [](action.note = "none" <=> action.notified = 0)
    /\ [](action.note # "none" /\ pc # "notification"
            => (action.note = "success" <=> action.outcome = "exit_zero"))
    /\ [][/\ (pc = "script" /\ pc' # "script"
              => /\ pc' = "notification"
                 /\ action'.spawned = action.spawned
                        + (IF action'.outcome \in {"no_directory", "no_file"} THEN 0 ELSE 1))
          /\ (pc = "notification" /\ pc' # "notification"
              => /\ pc' = "loop"
                 /\ shown' = shown + 1
                 /\ Idle'
                 /\ fired' = fired
                 /\ queue' = queue)]_vars

\* a stop sentinel is queued for the running loop
StopQueued ==
    /\ pc \in {"loop", "script", "notification"}
    /\ \E i \in 1..Len(queue) : queue[i].kind = "Other"

\* C12: once the stop handler has put an event of kind Other on the channel of
\* the running loop, the loop eventually takes it and run_watcher returns,
\* and the release service then reports the Stopped status, provided the
\* script of every action fired before it terminates; when the loop breaks,
\* every item sent before the sentinel has been handled.
C12_StopEventuallyReturns ==
    /\ StopQueued ~> (/\ pc = "returned"
                       /\ last.kind = "Other"
                       /\ reported = <<"Running", "Stopped">>)
    /\ [][pc = "loop" /\ pc' = "broke"
            => Head(queue).kind = "Other" /\ consumed' = Head(queue).seq]_vars

\* C13: handling a Modify event while the hidden file is not open, or a Modify
\* event that does not match the expected visible file, leaves the three
\* lifecycle fields as they were; so is_expected_file_modified is true only
\* while is_expected_hidden_file_opened is true.
C13_ModifyOutsideTrackingIgnored ==
    /\ [][HandlingKind("Modify")
            /\ (\/ ~is_expected_hidden_file_opened
                \/ \A read_dir \in ReadDir : ~Matches(Head(queue), read_dir, cfg))
            => LifecycleUnchanged]_vars
    /\ [](is_expected_file_modified => is_expected_hidden_file_opened)

\* C14: cur_expected_hidden_filename is non-empty exactly while
\* is_expected_hidden_file_opened is true, and a matching Create event sets it
\* to the file name of the expected hidden file that the event matched, also
\* when the event carries several paths.
C14_TrackedNameIsExpectedHidden ==
    /\ [](cur_expected_hidden_filename # <<>> <=> is_expected_hidden_file_opened)
    /\ [][creates' = creates + 1
            => \E read_dir \in ReadDir :
                /\ ExpectedHidden(read_dir, cfg) # None
                /\ Some(cur_expected_hidden_filename')
                        = file_name(ExpectedHidden(read_dir, cfg)[1])]_vars

\* C15: in whatever state it is handled, a Create event that matches the
\* expected hidden file leaves the hidden file open, the modified flag false
\* and the tracked name equal to the file name the event reports; so in
\* [Create(F), Modify, Create(F), Remove(F)] neither the second Create nor
\* the Remove fires the action.
C15_CreateRestartsSession ==
    /\ [][creates' = creates + 1
            => /\ is_expected_hidden_file_opened'
               /\ ~is_expected_file_modified'
               /\ Some(cur_expected_hidden_filename')
                    = get_filename_from_event(Head(queue))]_vars
    /\ [][restart' # restart /\ restart'.pos \in {3, 4} => fired' = fired /\ pc' = "loop"]_vars

C15_Witness ==
    /\ restart.pos = 4
    /\ restart.f = Hidden("bing")
    /\ last.kind = "Remove"
    /\ creates = 2
    /\ fired = 0
    /\ is_expected_hidden_file_opened
    /\ ~is_expected_file_modified

\* C16: handling an Err item leaves the three lifecycle fields as they were,
\* fires nothing and does not end the loop: the loop is back at the head of
\* the channel with the items behind the Err item, in the state it had before
\* it, so that they are handled as if the Err item had not been sent.
C16_ErrorItemChangesNothing ==
    [][Handling /\ Head(queue).res = "Err"
        => /\ LifecycleUnchanged
           /\ fired' = fired
           /\ pc' = "loop"
           /\ queue' = Tail(queue)
           /\ UNCHANGED <<creates, session, dir, readable, watching, status>>]_vars

C16_Witness ==
    /\ last.kind = "Err"
    /\ last.seq = 3
    /\ pc = "loop"
    /\ is_expected_hidden_file_opened
    /\ is_expected_file_modified
    /\ cur_expected_hidden_filename = Hidden("bing")
    /\ Len(queue) = 1
    /\ queue[1].kind = "Remove"

\* C17: when the registration of the directory watch fails, the release build
\* makes run_watcher return an error without entering the loop, and the debug
\* build ignores the failure and enters the loop.
C17_WatchFailureFatalInRelease ==
    [][pc = "watch" /\ pc' # "watch" /\ ~watching'
        => pc' = IF variant = "release" THEN "error" ELSE "loop"]_vars

\* C18: when path.toml is missing or malformed, run_watcher returns an error
\* from load_config: the watcher is not created, the watch is not registered,
\* no item is taken from the channel, and the run has no lifecycle transition
\* and no firing.
C18_ConfigErrorBeforeAnything ==
    /\ [](~config_ok
            => /\ pc \in {"load_config", "error"}
               /\ ~watching
               /\ consumed = 0
               /\ creates = 0
               /\ fired = 0
               /\ action = NoAction
               /\ Idle)
    /\ [][pc = "load_config" /\ pc' # "load_config" /\ ~config_ok => pc' = "error"]_vars

C18_Witness ==
    /\ ~config_ok
    /\ pc = "error"
    /\ variant = "release"
    /\ Len(queue) = 1
    /\ queue[1].kind = "Other"
    /\ consumed = 0

\* C19 as stated: the action fires only when a path of the Remove event is
\* the tracked hidden file itself, the file of the tracked name in the
\* listened directory.
C19_FiresOnlyOnTrackedPath ==
    [][fired' = fired + 1
        => \E i \in 1..Len(Head(queue).paths) :
            Head(queue).paths[i] = join(cfg.listened_directory, cur_expected_hidden_filename)]_vars

\* C19, amended: with the hidden file open and modified, a Remove event fires
\* the action exactly when the file name it reports (the final segment of
\* its first path that has one) is the tracked name; the directory of the
\* removed path is not compared, so the Remove of a file of the same name in
\* a subdirectory fires it too.
C19_FiresOnSameFileName ==
    /\ [][fired' = fired + 1
            => /\ HandlingKind("Remove")
               /\ get_filename_from_event(Head(queue)) = Some(cur_expected_hidden_filename)]_vars
    /\ [][/\ HandlingKind("Remove")
          /\ is_expected_hidden_file_opened
          /\ is_expected_file_modified
          /\ get_filename_from_event(Head(queue)) = Some(cur_expected_hidden_filename)
          => fired' = fired + 1 /\ action'.by = Head(queue).paths]_vars

C19_Witness ==
    /\ pc = "script"
    /\ fired = 1
    /\ action.by = <<RootPath, join("W/sub", Hidden("bing"))>>

\* the version symbol (index in Tiangan) of a hidden file name, {} if it has none
HiddenSymbolOf(name, c) ==
    {i \in 1..Len(Tiangan) :
        name = c.hidden_filename_prefix \o <<Tiangan[i]>> \o <<".">> \o c.ext_name}

\* C20: whenever the action fires, the visible file whose Modify event set
\* is_expected_file_modified has the same version symbol as the tracked
\* hidden file, whatever files were added to or removed from the directory
\* between the Create, the Modify and the Remove.
C20_ModifiedFileIsTrackedVersion ==
    [][fired' = fired + 1
        => /\ modified_by # None
           /\ SymbolOf(modified_by[1], cfg) # {}
           /\ SymbolOf(modified_by[1], cfg)
                = HiddenSymbolOf(cur_expected_hidden_filename, cfg)]_vars

====
